---- MODULE Spec2Model ----
(***************************************************************************)
(* Model of the two concurrency primitives of tiny-lib:                    *)
(*   Util::CallbackWithTimeout  (src/CallbackWithTimeout.hpp)              *)
(*   Util::FifoMultiThreaded    (src/FifoMultiThreaded.hpp)                *)
(* The executor is driven by one caller thread (start/stop/destructor are  *)
(* serialized by the caller) and by the worker threads it spawns.  Every   *)
(* action is one atomic access of the code: a load or store of execute_,   *)
(* a join, the spawn of the worker, one sleep_for.  The queue is driven by  *)
(* a set of threads; every action is one statement of an operation, with   *)
(* the acquisition and the release of mutex_ as steps of their own.        *)
(* Also modelled: ILogProvider::setLevel (src/ILogProvider.hpp) and        *)
(* Log4CppLoggerProvider (src/Log4CppLoggerProvider.hpp), one action per   *)
(* call of a single caller.  The key-value adapters HiRedisProvider         *)
(* (src/HiRedisProvider.hpp) and RapidJsonProvider                         *)
(* (src/RapidJsonProvider.hpp) are modelled one action per public call,    *)
(* with the replies of the library as inputs; concurrent calls of          *)
(* Log4CppLoggerProvider::start are modelled statement by statement.       *)
(***************************************************************************)
EXTENDS Integers, Sequences, FiniteSets, TLC

\* ---- bounds of the model ------------------------------------------------
\* number of start() calls (each spawns one std::thread)
MaxWorkers == 2
\* the per-worker invocation counter saturates here
MaxCalls == 2

\* number of threads that use the queue
NThreads == 2
\* number of push() calls
MaxPush == 3

\* number of messages the log4cpp root category receives
MaxEmit == 2

\* number of invocations of the pushing callback
MaxTicks == 3
\* number of threads that pop while the timer runs
NConsumers == 1

\* number of calls made on a constructed HiRedisProvider
MaxRedisCalls == 2
\* number of calls made on a constructed RapidJsonProvider
MaxJsonCalls == 2
\* number of threads that call Log4CppLoggerProvider::start()
NStarters == 2

\* ---- inputs ---------------------------------------------------------------
\* values of timeoutMilliseconds handed to start(): zero, below one slice,
\* an exact multiple of the slice, above a multiple of the slice
Timeouts == {0, 10, 50, 60}
\* the callback functions and the context pointers a caller may pass
Callbacks == {"cbA", "cbB"}
Params == {"ctx1", "ctx2"}

\* the elements a thread may push
Items == {"a", "b"}

Workers == 1..MaxWorkers

Threads == 1..NThreads

\* the identity of worker w as a thread that uses the queue
WorkerTid(w) == NThreads + w

QueueThreads == Threads \cup {WorkerTid(w) : w \in Workers}

\* the threads that pop from the queue the timer feeds
Consumers == {t \in Threads : t <= NConsumers}

\* the intervals of the timer that feeds a queue: the 10 ms of the
\* scenario (no slice) and one with two slices
TickTimeouts == {10, 50}

\* const long timeSliceMilliseconds(25)
timeSliceMilliseconds == 25

VARIABLES
    execute_,   \* std::atomic<bool> execute_
    thread_,    \* std::thread thread_: 0 = not joinable, w = handle of worker w
    cpc,        \* position of the caller thread
    op,         \* the public call in progress: "none", "start" (found the flag
                \* clear), "restart" (found it set), "stop", "dtor"
    last,       \* the public call that returned last ("ctor" after construction)
    args,       \* arguments of the latest start(), until the next stop()/destructor
    spawned,    \* number of std::thread objects created so far
    worker      \* per worker: position, captured arguments, locals, history

VARIABLES
    queue_,     \* std::queue<T, A> queue_, front first
    mutex_,     \* std::recursive_mutex mutex_: owner (0 = free), lock count
    th,         \* per thread, for the call it is in: position, push's element,
                \* the variable bound to pop's element (out: "old" is the
                \* value it had before the call), pop's status, the value of
                \* the return expression once evaluated
    pushed,     \* history: the elements pushed, in the order of queue_.push
    popped      \* history: the elements popped, in the order of queue_.pop

VARIABLES
    started_,       \* bool Log4CppLoggerProvider::started_
    rootPriority,   \* priority of the log4cpp root category
    sink,           \* what the root category was handed: <<priority, message>>
    phase,          \* history: "new", "started" (a start() returned true
                    \* last), "shut" (shutdown() was called last)
    lcall,          \* history: the last call on the provider and its outcome
    counter         \* the integer the pushing callback increments

VARIABLES
    connContext_,   \* redisContext *connContext_: "uninit" before the
                    \* constructor assigns it, "nullptr", or "ctx"
    context,        \* the redisContext the library allocated: its state
                    \* and the number of redisFree calls on it
    wire,           \* history: the commands handed to redisCommand, each
                    \* with the state of the context it was sent on
    rcall,          \* history: the last call on the provider and its outcome
    rphase          \* "unconstructed", "live", "destroyed", "crashed"

VARIABLES
    doc_,           \* rapidjson::Document doc_
    initialized_,   \* bool RapidJsonProvider::initialized_ (FALSE stands
                    \* for the indeterminate value before the constructor)
    jcall           \* history: the last call on the provider and its outcome

VARIABLES
    lth,            \* per thread calling start(): position, return value,
                    \* whether its configure threw ConfigureFailure
    lock_,          \* std::mutex Log4CppLoggerProvider::lock_: owner, 0 = free
    nconfig         \* history: number of PropertyConfigurator::configure
                    \* calls that configured log4cpp

lvars == <<started_, rootPriority, sink, phase, lcall>>

rvars == <<connContext_, context, wire, rcall, rphase>>

jvars == <<doc_, initialized_, jcall>>

svars == <<lth, lock_, nconfig>>

pvars == <<rvars, jvars, svars>>

others == <<lvars, counter, pvars>>

evars == <<execute_, thread_, cpc, op, last, args, spawned, worker>>

qvars == <<queue_, mutex_, th, pushed, popped>>

vars == <<evars, qvars, others>>

NoArgs == [timeoutMilliseconds |-> 0, callback |-> "none", param |-> "none"]

Unborn == [pc |-> "unborn", timeoutMilliseconds |-> 0, callback |-> "none",
           param |-> "none", maxSteps |-> 0, step |-> 0,
           ncalls |-> 0, slept |-> 0, afterClear |-> 0]

\* a thread outside the queue's operations: no frame, no locals
Idle == [pc |-> "idle", element |-> "none", out |-> "none",
         status |-> FALSE, ret |-> "none"]

\* enum LogLevel
LL_ALL == 127
LL_TRACE == 63
LL_DEBUG == 31
LL_INFO == 15
LL_WARN == 7
LL_ERROR == 3
LL_FATAL == 1
LL_OFF == 0

\* the values handed to setLevel(int): the enumerators and one other int
Levels == {LL_ALL, LL_TRACE, LL_DEBUG, LL_INFO, LL_WARN, LL_ERROR, LL_FATAL,
           LL_OFF, 5}

\* Literals: the tags, as sequences of character codes
allTag == <<97, 108, 108>>
traceTag == <<116, 114, 97, 99, 101>>
debugTag == <<100, 101, 98, 117, 103>>
infoTag == <<105, 110, 102, 111>>
warnTag == <<119, 97, 114, 110>>
errorTag == <<101, 114, 114, 111, 114>>
fatalTag == <<102, 97, 116, 97, 108>>
offTag == <<111, 102, 102>>

Tags == {allTag, traceTag, debugTag, infoTag, warnTag, errorTag, fatalTag, offTag}

\* the strings handed to setLevel(const std::string&): the tags, the empty
\* string, "TRACE", "Warn", "of", "offf", "trac"
LevelStrings ==
    Tags \cup {<<>>, <<84, 82, 65, 67, 69>>, <<87, 97, 114, 110>>,
               <<111, 102>>, <<111, 102, 102, 102>>, <<116, 114, 97, 99>>}

\* the strings handed to setLevel(const std::wstring&): the same characters
\* as wide characters, and two strings with a character above 255
WideLevelStrings ==
    LevelStrings \cup {<<372, 114, 97, 99, 101>>, <<8364, 102, 102>>}

\* the messages handed to the emit methods
Messages == {"msg"}

\* the root priority a properties file may configure
ConfigPriorities == {"DEBUG", "WARN"}

NoCall == [name |-> "none", arg |-> <<>>, phase0 |-> "new", level |-> -1,
           passed |-> "none", ret |-> FALSE]

\* std::string(level.begin(), level.end()): each wchar_t is converted to
\* char, which keeps its low eight bits
Narrow(w) == [i \in 1..Len(w) |-> w[i] % 256]

ToLower(c) == IF c >= 65 /\ c <= 90 THEN c + 32 ELSE c

\* a comparison of the tags that ignores case
StringLevelNoCase(level) ==
    LET l == [i \in 1..Len(level) |-> ToLower(level[i])] IN
    IF l = traceTag THEN LL_TRACE
    ELSE IF l = debugTag THEN LL_DEBUG
    ELSE IF l = infoTag THEN LL_INFO
    ELSE IF l = warnTag THEN LL_WARN
    ELSE IF l = errorTag THEN LL_ERROR
    ELSE IF l = fatalTag THEN LL_FATAL
    ELSE IF l = offTag THEN LL_OFF
    ELSE LL_ALL

\* ILogProvider::setLevel(const std::string&): intLevel(LL_ALL) and the
\* chain of level.compare(tag) == 0
StringLevel(level) ==
    IF level = traceTag THEN LL_TRACE
    ELSE IF level = debugTag THEN LL_DEBUG
    ELSE IF level = infoTag THEN LL_INFO
    ELSE IF level = warnTag THEN LL_WARN
    ELSE IF level = errorTag THEN LL_ERROR
    ELSE IF level = fatalTag THEN LL_FATAL
    ELSE IF level = offTag THEN LL_OFF
    ELSE LL_ALL

\* Log4CppLoggerProvider::setLevel: log4cppPriority(NOTSET) and the switch
PriorityOf(level) ==
    CASE level = LL_DEBUG -> "DEBUG"
      [] level = LL_INFO -> "INFO"
      [] level = LL_WARN -> "WARN"
      [] level = LL_ERROR -> "ERROR"
      [] level = LL_FATAL -> "FATAL"
      [] OTHER -> "NOTSET"

\* ---- HiRedisProvider: inputs ------------------------------------------------

\* what redisConnectWithTimeout returns: no context, a context with err set,
\* a connected context
ConnectOutcomes == {"null", "err", "ok"}

\* keys, as sequences of characters: empty, a single key, a key that ends in
\* the asterisk
RedisKeys == {<<>>, <<"k">>, <<"k", "*">>}

\* the keys the store may list in its reply to KEYS
SubKeys == {<<"k", "1">>, <<"k", "2">>}

\* what redisCommand returns for KEYS: no reply object, or an array reply
\* with its elements
KeysReplies ==
    {[null |-> TRUE, elements |-> <<>>]} \cup
    {[null |-> FALSE, elements |-> e] :
        e \in {<<>>, <<<<"k", "1">>>>, <<<<"k", "1">>, <<"k", "2">>>>}}

RedisValues == {"v"}

\* what redisCommand returns for SET: no reply object, a status reply, an
\* error reply
SetReplies == {"null", "status", "error"}

\* what redisCommand returns for GET: no reply object, a nil reply (str is
\* NULL), a string reply
GetReplies == {"null", "nil", "string"}

\* what a build does with a command on a context that was freed
FreedUse == {"crash", "proceed"}

NoContext == [state |-> "none", err |-> FALSE, frees |-> 0]

NoRCall == [n |-> 0, name |-> "none", key |-> <<>>, ret |-> FALSE,
            values |-> <<>>, reply |-> "none", returned |-> FALSE]

\* ---- RapidJsonProvider: inputs ----------------------------------------------

\* a JSON value: its type, the text of a string, the members of an object
\* as <<name, value>> pairs in document order
NullValue == [type |-> "null", str |-> "", members |-> <<>>]

Str(text) == [type |-> "string", str |-> text, members |-> <<>>]

Num == [type |-> "number", str |-> "", members |-> <<>>]

Arr == [type |-> "array", str |-> "", members |-> <<>>]

Obj(ms) == [type |-> "object", str |-> "", members |-> ms]

\* the texts handed to the constructor: an object with nested objects,
\* strings and a number; an array; a text that does not parse
JsonTexts ==
    {"{\"a\":{\"b\":\"s1\",\"n\":1,\"o\":{\"c\":\"s2\"}},\"t\":\"s0\"}",
     "[1]",
     "{"}

\* doc_.Parse<0>(text): the parse error flag and the root of the document
\* (a document that failed to parse is left null)
Parse(text) ==
    CASE text = "{\"a\":{\"b\":\"s1\",\"n\":1,\"o\":{\"c\":\"s2\"}},\"t\":\"s0\"}" ->
            [error |-> FALSE,
             root |-> Obj(<<
                <<<<"a">>, Obj(<<
                    <<<<"b">>, Str("s1")>>,
                    <<<<"n">>, Num>>,
                    <<<<"o">>, Obj(<< <<<<"c">>, Str("s2")>> >>)>> >>)>>,
                <<<<"t">>, Str("s0")>> >>)]
      [] text = "[1]" -> [error |-> FALSE, root |-> Arr]
      [] OTHER -> [error |-> TRUE, root |-> NullValue]

\* the keys handed to getValue, as sequences of characters: empty, one
\* segment, nested, missing, ending at a number or an object, running past
\* a string or a number, with an empty segment, with a trailing delimiter
JsonKeys ==
    {<<>>, <<"t">>, <<"a">>, <<"x">>, <<"/">>,
     <<"a", "/", "b">>, <<"a", "/", "n">>, <<"a", "/", "x">>,
     <<"a", "/", "o">>, <<"a", "/", "o", "/", "c">>,
     <<"a", "/", "b", "/", "z">>, <<"a", "/", "n", "/", "z">>,
     <<"t", "/", "z">>, <<"a", "/", "/", "b">>, <<"a", "/", "b", "/">>}

\* what a build does with HasMember on a value that is not an object: the
\* assertion of the library aborts, or (assertions off) no member matches
Misuse == {"abort", "no_match"}

NoJCall == [n |-> 0, name |-> "none", key |-> <<>>, ret |-> FALSE,
            values |-> <<>>, returned |-> FALSE]

\* a thread outside start()
NoStart == [pc |-> "idle", ret |-> FALSE, failed |-> FALSE]

Starters == 1..NStarters

\* C++ integer division truncates toward zero
TruncDiv(a, b) == IF a >= 0 THEN a \div b ELSE -((-a) \div b)

\* const long long maxSteps = timeoutMilliseconds / timeSliceMilliseconds
MaxStepsOf(t) == TruncDiv(t, timeSliceMilliseconds)

\* off by one: step++ <= maxSteps
SliceContinueLeq(step, maxSteps) == step <= maxSteps

\* the arithmetic half of the slice loop's condition: step++ < maxSteps
SliceContinue(step, maxSteps) == step < maxSteps

\* a handle whose thread was detached at creation
joinableDetached == FALSE

\* a std::thread is joinable from its creation until it is joined
joinable == thread_ # 0

\* bool isRunning(): execute_.load() && thread_.joinable()
isRunning == execute_ /\ joinable

Alive(w) == worker[w].pc \notin {"unborn", "done"}

AliveWorkers == {w \in Workers : Alive(w)}

Sat(n) == IF n < MaxCalls THEN n + 1 ELSE MaxCalls

\* CallbackWithTimeout(): execute_(false), thread_ default constructed
Init ==
    /\ execute_ = FALSE
    /\ thread_ = 0
    /\ cpc = "idle"
    /\ op = "none"
    /\ last = "ctor"
    /\ args = NoArgs
    /\ spawned = 0
    /\ worker = [w \in Workers |-> Unborn]
    /\ queue_ = <<>>
    /\ mutex_ = [owner |-> 0, count |-> 0]
    /\ th = [t \in QueueThreads |-> Idle]
    /\ pushed = <<>>
    /\ popped = <<>>
    /\ started_ = FALSE
    /\ rootPriority = "INFO"
    /\ sink = <<>>
    /\ phase = "new"
    /\ lcall = NoCall
    /\ counter = 0
    /\ connContext_ = "uninit"
    /\ context = NoContext
    /\ wire = <<>>
    /\ rcall = NoRCall
    /\ rphase = "unconstructed"
    /\ doc_ = NullValue
    /\ initialized_ = FALSE
    /\ jcall = NoJCall
    /\ lth = [t \in Starters |-> NoStart]
    /\ lock_ = 0
    /\ nconfig = 0

\* ---- the caller thread ----------------------------------------------------

\* start() without the stop() of a running worker
startNoStop(t, cb, p) ==
    /\ cpc = "idle"
    /\ spawned < MaxWorkers
    /\ op' = IF execute_ THEN "restart" ELSE "start"
    /\ args' = [timeoutMilliseconds |-> t, callback |-> cb, param |-> p]
    /\ cpc' = "start_store"
    /\ UNCHANGED qvars
    /\ UNCHANGED others
    /\ UNCHANGED <<execute_, thread_, last, spawned, worker>>

\* start(timeoutMilliseconds, callback, param): entry and the load of
\* execute_; a set flag leads into stop()
start(t, cb, p) ==
    /\ cpc = "idle"
    /\ spawned < MaxWorkers
    /\ op' = IF execute_ THEN "restart" ELSE "start"
    /\ args' = [timeoutMilliseconds |-> t, callback |-> cb, param |-> p]
    /\ cpc' = IF execute_ THEN "stop_store" ELSE "start_store"
    /\ UNCHANGED qvars
    /\ UNCHANGED others
    /\ UNCHANGED <<execute_, thread_, last, spawned, worker>>

\* start(callback, param) { this->start(0, callback, param); }
start0(cb, p) == start(0, cb, p)

\* start() that leaves the flag as it is
start_storeSkipped ==
    /\ cpc = "start_store"
    /\ cpc' = "start_spawn"
    /\ UNCHANGED qvars
    /\ UNCHANGED others
    /\ UNCHANGED <<execute_, thread_, op, last, args, spawned, worker>>

\* execute_.store(true)
start_store ==
    /\ cpc = "start_store"
    /\ execute_' = TRUE
    /\ cpc' = "start_spawn"
    /\ UNCHANGED qvars
    /\ UNCHANGED others
    /\ UNCHANGED <<thread_, op, last, args, spawned, worker>>

\* thread_ = std::thread(lambda): move assignment onto a joinable handle
\* calls std::terminate; otherwise the new worker starts at its loop test
start_spawn ==
    /\ cpc = "start_spawn"
    /\ IF joinable
       THEN /\ cpc' = "terminated"
            /\ UNCHANGED <<thread_, op, last, spawned, worker>>
       ELSE /\ spawned' = spawned + 1
            /\ thread_' = spawned + 1
            /\ worker' = [worker EXCEPT ![spawned + 1] =
                    [Unborn EXCEPT !.pc = "loop_check",
                        !.timeoutMilliseconds = args.timeoutMilliseconds,
                        !.callback = args.callback,
                        !.param = args.param]]
            /\ cpc' = "idle"
            /\ op' = "none"
            /\ last' = op
    /\ UNCHANGED qvars
    /\ UNCHANGED others
    /\ UNCHANGED <<execute_, args>>

\* stop(): entry of a call made by the user
stop ==
    /\ cpc = "idle"
    /\ op' = "stop"
    /\ args' = NoArgs
    /\ cpc' = "stop_store"
    /\ UNCHANGED qvars
    /\ UNCHANGED others
    /\ UNCHANGED <<execute_, thread_, last, spawned, worker>>

\* stop() that leaves the flag as it is
stop_storeSkipped ==
    /\ cpc = "stop_store"
    /\ cpc' = "stop_join"
    /\ UNCHANGED qvars
    /\ UNCHANGED others
    /\ UNCHANGED <<execute_, thread_, op, last, args, spawned, worker>>

\* stop() that inverts the flag
stop_storeToggle ==
    /\ cpc = "stop_store"
    /\ execute_' = ~execute_
    /\ cpc' = "stop_join"
    /\ UNCHANGED qvars
    /\ UNCHANGED others
    /\ UNCHANGED <<thread_, op, last, args, spawned, worker>>

\* execute_.store(false)
stop_store ==
    /\ cpc = "stop_store"
    /\ execute_' = FALSE
    /\ cpc' = "stop_join"
    /\ UNCHANGED qvars
    /\ UNCHANGED others
    /\ UNCHANGED <<thread_, op, last, args, spawned, worker>>

\* where stop() returns to
StopReturn(o) ==
    CASE o = "restart" -> "start_store"
      [] o = "dtor" -> "dtor_members"
      [] OTHER -> "idle"

\* stop() that lets go of the handle without waiting for the worker
stop_joinNoWait ==
    /\ cpc = "stop_join"
    /\ thread_' = 0
    /\ cpc' = StopReturn(op)
    /\ op' = IF op = "stop" THEN "none" ELSE op
    /\ last' = IF op = "stop" THEN "stop" ELSE last
    /\ UNCHANGED qvars
    /\ UNCHANGED others
    /\ UNCHANGED <<execute_, args, spawned, worker>>

\* if (thread_.joinable()) thread_.join(); join blocks until the worker's
\* function has returned and leaves the handle not joinable
stop_join ==
    /\ cpc = "stop_join"
    /\ joinable => worker[thread_].pc = "done"
    /\ thread_' = 0
    /\ cpc' = StopReturn(op)
    /\ op' = IF op = "stop" THEN "none" ELSE op
    /\ last' = IF op = "stop" THEN "stop" ELSE last
    /\ UNCHANGED qvars
    /\ UNCHANGED others
    /\ UNCHANGED <<execute_, args, spawned, worker>>

\* destructor that goes to the members without stop()
dtorNoStop ==
    /\ cpc = "idle"
    /\ op' = "dtor"
    /\ args' = NoArgs
    /\ cpc' = "dtor_members"
    /\ UNCHANGED qvars
    /\ UNCHANGED others
    /\ UNCHANGED <<execute_, thread_, last, spawned, worker>>

\* ~CallbackWithTimeout(): if (execute_.load()) stop();
dtor ==
    /\ cpc = "idle"
    /\ op' = "dtor"
    /\ args' = NoArgs
    /\ cpc' = IF execute_ THEN "stop_store" ELSE "dtor_members"
    /\ UNCHANGED qvars
    /\ UNCHANGED others
    /\ UNCHANGED <<execute_, thread_, last, spawned, worker>>

\* destruction of the members: ~thread() on a joinable handle calls
\* std::terminate
dtor_members ==
    /\ cpc = "dtor_members"
    /\ cpc' = IF joinable THEN "terminated" ELSE "destroyed"
    /\ UNCHANGED qvars
    /\ UNCHANGED others
    /\ UNCHANGED <<execute_, thread_, op, last, args, spawned, worker>>

\* ---- the worker thread (the lambda of start) ------------------------------

\* a loop that goes on whatever the flag: while (true)
loop_checkNoFlag(w) ==
    /\ worker[w].pc = "loop_check"
    /\ worker' = [worker EXCEPT ![w].pc = "call"]
    /\ UNCHANGED qvars
    /\ UNCHANGED others
    /\ UNCHANGED <<execute_, thread_, cpc, op, last, args, spawned>>

\* while (execute_.load(std::memory_order_acquire)); on a cleared flag the
\* thread function returns and its captures and locals are gone
loop_check(w) ==
    /\ worker[w].pc = "loop_check"
    /\ worker' = [worker EXCEPT ![w] =
            IF execute_ THEN [@ EXCEPT !.pc = "call"]
            ELSE [Unborn EXCEPT !.pc = "done"]]
    /\ UNCHANGED qvars
    /\ UNCHANGED others
    /\ UNCHANGED <<execute_, thread_, cpc, op, last, args, spawned>>

\* callback(param): the invocation begins
callback_begin(w) ==
    /\ worker[w].pc = "call"
    /\ worker' = [worker EXCEPT ![w].pc = "in_cb",
            ![w].ncalls = Sat(@),
            ![w].afterClear = IF execute_ THEN @ ELSE @ + 1]
    /\ UNCHANGED qvars
    /\ UNCHANGED others
    /\ UNCHANGED <<execute_, thread_, cpc, op, last, args, spawned>>

\* a worker that gives up after an invocation: it clears the flag itself
callback_returnClears(w) ==
    /\ worker[w].pc = "in_cb"
    /\ execute_' = FALSE
    /\ worker' = [worker EXCEPT ![w].pc = "slice_check",
            ![w].maxSteps = MaxStepsOf(worker[w].timeoutMilliseconds),
            ![w].step = 0,
            ![w].slept = 0]
    /\ UNCHANGED qvars
    /\ UNCHANGED others
    /\ UNCHANGED <<thread_, cpc, op, last, args, spawned>>

\* callback(param) returns; maxSteps and step(0) are initialized
callback_return(w) ==
    /\ worker[w].pc = "in_cb"
    /\ worker' = [worker EXCEPT ![w].pc = "slice_check",
            ![w].maxSteps = MaxStepsOf(worker[w].timeoutMilliseconds),
            ![w].step = 0,
            ![w].slept = 0]
    /\ UNCHANGED qvars
    /\ UNCHANGED others
    /\ UNCHANGED <<execute_, thread_, cpc, op, last, args, spawned>>

\* slice loop that does not look at the flag: while (step++ < maxSteps)
slice_checkNoFlag(w) ==
    /\ worker[w].pc = "slice_check"
    /\ worker' = [worker EXCEPT
            ![w].pc = IF SliceContinue(worker[w].step, worker[w].maxSteps)
                      THEN "sleep" ELSE "loop_check",
            ![w].step = @ + 1]
    /\ UNCHANGED qvars
    /\ UNCHANGED others
    /\ UNCHANGED <<execute_, thread_, cpc, op, last, args, spawned>>

\* while (execute_.load() && step++ < maxSteps): && short-circuits, so step
\* is incremented only when the flag was read as set
slice_check(w) ==
    /\ worker[w].pc = "slice_check"
    /\ worker' = [worker EXCEPT
            ![w].pc = IF execute_ /\ SliceContinue(worker[w].step, worker[w].maxSteps)
                      THEN "sleep" ELSE "loop_check",
            ![w].step = IF execute_ THEN @ + 1 ELSE @]
    /\ UNCHANGED qvars
    /\ UNCHANGED others
    /\ UNCHANGED <<execute_, thread_, cpc, op, last, args, spawned>>

\* std::this_thread::sleep_for(milliseconds(timeSliceMilliseconds)) elapses
sleep_for(w) ==
    /\ worker[w].pc = "sleep"
    /\ worker' = [worker EXCEPT ![w].pc = "slice_check",
            ![w].slept = @ + timeSliceMilliseconds,
            ![w].afterClear = IF execute_ THEN @ ELSE @ + 1]
    /\ UNCHANGED qvars
    /\ UNCHANGED others
    /\ UNCHANGED <<execute_, thread_, cpc, op, last, args, spawned>>

WorkerStep(w) ==
    \/ loop_check(w)
    \/ callback_begin(w)
    \/ callback_return(w)
    \/ slice_check(w)
    \/ sleep_for(w)

\* ---- FifoMultiThreaded ----------------------------------------------------

\* a guard that is a temporary: the mutex is released in the same statement
LockTemporary(t) == mutex_

\* std::lock_guard<std::recursive_mutex> guard(mutex_): the mutex after t
\* has acquired it; t waits while another thread owns it
Lock(t) == [owner |-> t, count |-> mutex_.count + 1]

\* a mutex that excludes nobody
CanLockAlways(t) == TRUE

CanLock(t) == mutex_.owner \in {0, t}

\* ~lock_guard(): the mutex after t has released one level of ownership
Unlock(t) ==
    IF mutex_.owner # t THEN mutex_
    ELSE IF mutex_.count = 1 THEN [owner |-> 0, count |-> 0]
    ELSE [mutex_ EXCEPT !.count = @ - 1]

\* bool push(const T &element): entry
push(t, e) ==
    /\ th[t].pc = "idle"
    /\ Len(pushed) < MaxPush
    /\ th' = [th EXCEPT ![t].pc = "push_lock", ![t].element = e]
    /\ UNCHANGED <<queue_, mutex_, pushed, popped>>
    /\ UNCHANGED evars
    /\ UNCHANGED others

\* push: lock_guard guard(mutex_)
push_lock(t) ==
    /\ th[t].pc = "push_lock"
    /\ CanLock(t)
    /\ mutex_' = Lock(t)
    /\ th' = [th EXCEPT ![t].pc = "push_push"]
    /\ UNCHANGED <<queue_, pushed, popped>>
    /\ UNCHANGED evars
    /\ UNCHANGED others

\* push that inserts at the front
push_pushFront(t) ==
    /\ th[t].pc = "push_push"
    /\ queue_' = <<th[t].element>> \o queue_
    /\ pushed' = Append(pushed, th[t].element)
    /\ th' = [th EXCEPT ![t].pc = "push_return", ![t].ret = TRUE]
    /\ UNCHANGED <<mutex_, popped>>
    /\ UNCHANGED evars
    /\ UNCHANGED others

\* push: queue_.push(element); return true
push_push(t) ==
    /\ th[t].pc = "push_push"
    /\ queue_' = Append(queue_, th[t].element)
    /\ pushed' = Append(pushed, th[t].element)
    /\ th' = [th EXCEPT ![t].pc = "push_return", ![t].ret = TRUE]
    /\ UNCHANGED <<mutex_, popped>>
    /\ UNCHANGED evars
    /\ UNCHANGED others

\* push: the guard is released and the call returns
push_return(t) ==
    /\ th[t].pc = "push_return"
    /\ mutex_' = Unlock(t)
    /\ th' = [th EXCEPT ![t] = Idle]
    /\ UNCHANGED <<queue_, pushed, popped>>
    /\ UNCHANGED evars
    /\ UNCHANGED others

\* bool pop(T &element): entry, bool status(false); element is bound to a
\* variable of the caller, which holds the value it had before the call
pop(t) ==
    /\ th[t].pc = "idle"
    /\ th' = [th EXCEPT ![t].pc = "pop_lock", ![t].status = FALSE,
            ![t].out = "old"]
    /\ UNCHANGED <<queue_, mutex_, pushed, popped>>
    /\ UNCHANGED evars
    /\ UNCHANGED others

\* pop: lock_guard guard(mutex_)
pop_lock(t) ==
    /\ th[t].pc = "pop_lock"
    /\ CanLock(t)
    /\ mutex_' = Lock(t)
    /\ th' = [th EXCEPT ![t].pc = "pop_empty"]
    /\ UNCHANGED <<queue_, pushed, popped>>
    /\ UNCHANGED evars
    /\ UNCHANGED others

\* pop with the test inverted: if (queue_.empty())
pop_emptyInverted(t) ==
    /\ th[t].pc = "pop_empty"
    /\ th' = [th EXCEPT ![t].pc = IF queue_ = <<>> THEN "pop_front" ELSE "pop_unlock"]
    /\ UNCHANGED <<queue_, mutex_, pushed, popped>>
    /\ UNCHANGED evars
    /\ UNCHANGED others

\* pop that waits, inside the guard, until the queue has an element
pop_emptyWait(t) ==
    /\ th[t].pc = "pop_empty"
    /\ queue_ # <<>>
    /\ th' = [th EXCEPT ![t].pc = "pop_front"]
    /\ UNCHANGED <<queue_, mutex_, pushed, popped>>
    /\ UNCHANGED evars
    /\ UNCHANGED others

\* pop: if (!queue_.empty())
pop_empty(t) ==
    /\ th[t].pc = "pop_empty"
    /\ th' = [th EXCEPT ![t].pc = IF queue_ # <<>> THEN "pop_front" ELSE "pop_unlock"]
    /\ UNCHANGED <<queue_, mutex_, pushed, popped>>
    /\ UNCHANGED evars
    /\ UNCHANGED others

\* pop: element = queue_.front(); front() of an empty container is
\* undefined and yields any value
pop_front(t) ==
    /\ th[t].pc = "pop_front"
    /\ \E v \in (IF queue_ # <<>> THEN {Head(queue_)} ELSE Items) :
            th' = [th EXCEPT ![t].pc = "pop_pop", ![t].out = v]
    /\ UNCHANGED <<queue_, mutex_, pushed, popped>>
    /\ UNCHANGED evars
    /\ UNCHANGED others

\* pop that leaves the front element in the queue
pop_popKeep(t) ==
    /\ th[t].pc = "pop_pop"
    /\ popped' = Append(popped, th[t].out)
    /\ th' = [th EXCEPT ![t].pc = "pop_unlock", ![t].status = TRUE]
    /\ UNCHANGED <<queue_, mutex_, pushed>>
    /\ UNCHANGED evars
    /\ UNCHANGED others

\* pop: queue_.pop(); status = true
pop_pop(t) ==
    /\ th[t].pc = "pop_pop"
    /\ queue_' = IF queue_ # <<>> THEN Tail(queue_) ELSE queue_
    /\ popped' = Append(popped, th[t].out)
    /\ th' = [th EXCEPT ![t].pc = "pop_unlock", ![t].status = TRUE]
    /\ UNCHANGED <<mutex_, pushed>>
    /\ UNCHANGED evars
    /\ UNCHANGED others

\* pop: the inner block ends, the guard is released; return status
pop_unlock(t) ==
    /\ th[t].pc = "pop_unlock"
    /\ mutex_' = Unlock(t)
    /\ th' = [th EXCEPT ![t].pc = "pop_return", ![t].ret = th[t].status]
    /\ UNCHANGED <<queue_, pushed, popped>>
    /\ UNCHANGED evars
    /\ UNCHANGED others

\* pop: the call returns
pop_return(t) ==
    /\ th[t].pc = "pop_return"
    /\ th' = [th EXCEPT ![t] = Idle]
    /\ UNCHANGED <<queue_, mutex_, pushed, popped>>
    /\ UNCHANGED evars
    /\ UNCHANGED others

\* bool empty() const: entry
empty(t) ==
    /\ th[t].pc = "idle"
    /\ th' = [th EXCEPT ![t].pc = "empty_lock"]
    /\ UNCHANGED <<queue_, mutex_, pushed, popped>>
    /\ UNCHANGED evars
    /\ UNCHANGED others

\* empty: lock_guard guard(mutex_)
empty_lock(t) ==
    /\ th[t].pc = "empty_lock"
    /\ CanLock(t)
    /\ mutex_' = Lock(t)
    /\ th' = [th EXCEPT ![t].pc = "empty_read"]
    /\ UNCHANGED <<queue_, pushed, popped>>
    /\ UNCHANGED evars
    /\ UNCHANGED others

\* empty: return queue_.empty()
empty_read(t) ==
    /\ th[t].pc = "empty_read"
    /\ th' = [th EXCEPT ![t].pc = "empty_return", ![t].ret = (queue_ = <<>>)]
    /\ UNCHANGED <<queue_, mutex_, pushed, popped>>
    /\ UNCHANGED evars
    /\ UNCHANGED others

\* empty: the guard is released and the call returns
empty_return(t) ==
    /\ th[t].pc = "empty_return"
    /\ mutex_' = Unlock(t)
    /\ th' = [th EXCEPT ![t] = Idle]
    /\ UNCHANGED <<queue_, pushed, popped>>
    /\ UNCHANGED evars
    /\ UNCHANGED others

\* unsigned long long size() const: entry
size(t) ==
    /\ th[t].pc = "idle"
    /\ th' = [th EXCEPT ![t].pc = "size_lock"]
    /\ UNCHANGED <<queue_, mutex_, pushed, popped>>
    /\ UNCHANGED evars
    /\ UNCHANGED others

\* size: lock_guard guard(mutex_)
size_lock(t) ==
    /\ th[t].pc = "size_lock"
    /\ CanLock(t)
    /\ mutex_' = Lock(t)
    /\ th' = [th EXCEPT ![t].pc = "size_read"]
    /\ UNCHANGED <<queue_, pushed, popped>>
    /\ UNCHANGED evars
    /\ UNCHANGED others

\* size: return queue_.size()
size_read(t) ==
    /\ th[t].pc = "size_read"
    /\ th' = [th EXCEPT ![t].pc = "size_return", ![t].ret = Len(queue_)]
    /\ UNCHANGED <<queue_, mutex_, pushed, popped>>
    /\ UNCHANGED evars
    /\ UNCHANGED others

\* size: the guard is released and the call returns
size_return(t) ==
    /\ th[t].pc = "size_return"
    /\ mutex_' = Unlock(t)
    /\ th' = [th EXCEPT ![t] = Idle]
    /\ UNCHANGED <<queue_, pushed, popped>>
    /\ UNCHANGED evars
    /\ UNCHANGED others

NextFifo ==
    \/ \E t \in Threads, e \in Items : push(t, e)
    \/ \E t \in Threads : push_lock(t)
    \/ \E t \in Threads : push_push(t)
    \/ \E t \in Threads : push_return(t)
    \/ \E t \in Threads : pop(t)
    \/ \E t \in Threads : pop_lock(t)
    \/ \E t \in Threads : pop_empty(t)
    \/ \E t \in Threads : pop_front(t)
    \/ \E t \in Threads : pop_pop(t)
    \/ \E t \in Threads : pop_unlock(t)
    \/ \E t \in Threads : pop_return(t)
    \/ \E t \in Threads : empty(t)
    \/ \E t \in Threads : empty_lock(t)
    \/ \E t \in Threads : empty_read(t)
    \/ \E t \in Threads : empty_return(t)
    \/ \E t \in Threads : size(t)
    \/ \E t \in Threads : size_lock(t)
    \/ \E t \in Threads : size_read(t)
    \/ \E t \in Threads : size_return(t)

SpecFifo == Init /\ [][NextFifo]_vars

\* the acquisitions of mutex_ by thread t
FifoLockStep(t) ==
    \/ push_lock(t)
    \/ pop_lock(t)
    \/ empty_lock(t)
    \/ size_lock(t)

\* the steps of thread t inside a call, after the acquisition
FifoBodyStep(t) ==
    \/ push_push(t)
    \/ push_return(t)
    \/ pop_empty(t)
    \/ pop_front(t)
    \/ pop_pop(t)
    \/ pop_unlock(t)
    \/ pop_return(t)
    \/ empty_read(t)
    \/ empty_return(t)
    \/ size_read(t)
    \/ size_return(t)

\* the queue's operations with one value for the elements: whether a call
\* returns does not depend on the elements
NextFifoReturn ==
    \/ \E t \in Threads : push(t, "a")
    \/ \E t \in Threads : FifoLockStep(t)
    \/ \E t \in Threads : FifoBodyStep(t)
    \/ \E t \in Threads : pop(t)
    \/ \E t \in Threads : empty(t)
    \/ \E t \in Threads : size(t)

\* fair scheduling of the queue's threads: a thread inside a call keeps
\* running, and a thread that finds the mutex free again and again gets it
FairSpecFifo ==
    /\ Init /\ [][NextFifoReturn]_vars
    /\ \A t \in Threads : WF_vars(FifoBodyStep(t))
    /\ \A t \in Threads : SF_vars(FifoLockStep(t))

\* ---- Log4CppLoggerProvider -------------------------------------------------

\* start() that sets started_ before the configuration is known to work
lstartEager(ok, pr) ==
    /\ IF ~started_
       THEN /\ started_' = TRUE
            /\ rootPriority' = IF ok THEN pr ELSE rootPriority
            /\ phase' = IF ok THEN "started" ELSE phase
            /\ lcall' = [NoCall EXCEPT !.name = "start", !.phase0 = phase,
                    !.passed = "configure", !.ret = ok]
       ELSE /\ lcall' = [NoCall EXCEPT !.name = "start", !.phase0 = phase,
                    !.ret = started_]
            /\ phase' = "started"
            /\ UNCHANGED <<started_, rootPriority>>
    /\ UNCHANGED <<sink, counter>>
    /\ UNCHANGED <<evars, qvars, pvars>>

\* bool start(): on a provider that is not started, configure under the
\* guard; ConfigureFailure (ok = FALSE) returns false, otherwise started_
\* is set; return started_.  pr is the root priority of the properties file
lstart(ok, pr) ==
    /\ IF ~started_
       THEN /\ started_' = ok
            /\ rootPriority' = IF ok THEN pr ELSE rootPriority
            /\ phase' = IF ok THEN "started" ELSE phase
            /\ lcall' = [NoCall EXCEPT !.name = "start", !.phase0 = phase,
                    !.passed = "configure", !.ret = ok]
       ELSE /\ lcall' = [NoCall EXCEPT !.name = "start", !.phase0 = phase,
                    !.ret = started_]
            /\ phase' = "started"
            /\ UNCHANGED <<started_, rootPriority>>
    /\ UNCHANGED <<sink, counter>>
    /\ UNCHANGED <<evars, qvars, pvars>>

\* void shutdown(): on a started provider Category::shutdown() under the
\* guard, then started_ = false
lshutdown ==
    /\ started_' = FALSE
    /\ phase' = "shut"
    /\ lcall' = [NoCall EXCEPT !.name = "shutdown", !.phase0 = phase,
            !.passed = IF started_ THEN "shutdown" ELSE "none"]
    /\ UNCHANGED <<rootPriority, sink, counter>>
    /\ UNCHANGED <<evars, qvars, pvars>>

\* an emit method that does not look at started_
EmitUnchecked(name, priority, m) ==
    /\ Len(sink) < MaxEmit
    /\ sink' = Append(sink, <<priority, m>>)
    /\ lcall' = [NoCall EXCEPT !.name = name, !.phase0 = phase,
            !.passed = "emit", !.ret = TRUE]
    /\ UNCHANGED <<started_, rootPriority, phase, counter>>
    /\ UNCHANGED <<evars, qvars, pvars>>

\* the body shared by debug, info, warn, error and fatal: return false when
\* not started; otherwise, under the guard, hand the message to the root
\* category at the method's priority and return true
Emit(name, priority, m) ==
    /\ IF ~started_
       THEN /\ lcall' = [NoCall EXCEPT !.name = name, !.phase0 = phase]
            /\ UNCHANGED sink
       ELSE /\ Len(sink) < MaxEmit
            /\ sink' = Append(sink, <<priority, m>>)
            /\ lcall' = [NoCall EXCEPT !.name = name, !.phase0 = phase,
                    !.passed = "emit", !.ret = TRUE]
    /\ UNCHANGED <<started_, rootPriority, phase, counter>>
    /\ UNCHANGED <<evars, qvars, pvars>>

\* bool debug(const std::string&)
ldebug(m) == Emit("debug", "DEBUG", m)

\* bool log(const std::string&) { return debug(message); }
llog(m) == Emit("log", "DEBUG", m)

\* bool trace(const std::string&) { return debug(message); }
ltrace(m) == Emit("trace", "DEBUG", m)

\* bool info(const std::string&)
linfo(m) == Emit("info", "INFO", m)

\* bool warn(const std::string&)
lwarn(m) == Emit("warn", "WARN", m)

\* bool error(const std::string&)
lerror(m) == Emit("error", "ERROR", m)

\* bool fatal(const std::string&)
lfatal(m) == Emit("fatal", "FATAL", m)

\* bool setLevel(const int level), called as name with argument arg: false
\* when not started; the priority is computed; setRootPriority is called
\* under a second if (!started_), which a started provider does not enter;
\* return true
SetLevelInt(name, arg, level) ==
    /\ IF ~started_
       THEN /\ lcall' = [NoCall EXCEPT !.name = name, !.arg = arg,
                    !.phase0 = phase, !.level = level]
            /\ UNCHANGED rootPriority
       ELSE IF ~started_
       THEN /\ rootPriority' = PriorityOf(level)
            /\ lcall' = [NoCall EXCEPT !.name = name, !.arg = arg,
                    !.phase0 = phase, !.level = level,
                    !.passed = "setRootPriority", !.ret = TRUE]
       ELSE /\ lcall' = [NoCall EXCEPT !.name = name, !.arg = arg,
                    !.phase0 = phase, !.level = level, !.ret = TRUE]
            /\ UNCHANGED rootPriority
    /\ UNCHANGED <<started_, sink, phase, counter>>
    /\ UNCHANGED <<evars, qvars, pvars>>

\* bool setLevel(const int level)
lsetLevel(level) == SetLevelInt("setLevel", <<>>, level)

\* bool ILogProvider::setLevel(const std::string& level)
setLevelString(level) == SetLevelInt("setLevelString", level, StringLevel(level))

\* bool ILogProvider::setLevel(const std::wstring& level)
setLevelWide(level) ==
    SetLevelInt("setLevelWide", level, StringLevel(Narrow(level)))

NextLog ==
    \/ \E ok \in BOOLEAN, pr \in ConfigPriorities : lstart(ok, pr)
    \/ lshutdown
    \/ \E m \in Messages : ldebug(m)
    \/ \E m \in Messages : llog(m)
    \/ \E m \in Messages : ltrace(m)
    \/ \E m \in Messages : linfo(m)
    \/ \E m \in Messages : lwarn(m)
    \/ \E m \in Messages : lerror(m)
    \/ \E m \in Messages : lfatal(m)
    \/ \E level \in Levels : lsetLevel(level)
    \/ \E level \in LevelStrings : setLevelString(level)
    \/ \E level \in WideLevelStrings : setLevelWide(level)

SpecLog == Init /\ [][NextLog]_vars

\* ---- HiRedisProvider --------------------------------------------------------

\* HiRedisProvider(logger): connContext_ = redisConnectWithTimeout(...); when
\* it is null or has err set, a non-null context is handed to redisFree and
\* connContext_ keeps its value
HiRedisProvider(outcome) ==
    /\ rphase = "unconstructed"
    /\ rphase' = "live"
    /\ connContext_' = IF outcome = "null" THEN "nullptr" ELSE "ctx"
    /\ context' = CASE outcome = "null" -> NoContext
                    [] outcome = "err" ->
                        [state |-> "freed", err |-> TRUE, frees |-> 1]
                    [] OTHER -> [state |-> "open", err |-> FALSE, frees |-> 0]
    /\ rcall' = [NoRCall EXCEPT !.name = "ctor", !.returned = TRUE]
    /\ UNCHANGED wire
    /\ UNCHANGED <<evars, qvars, lvars, counter, jvars, svars>>

\* bool isConnected(): return (connContext_ != nullptr)
isConnected == connContext_ # "nullptr"

\* ~HiRedisProvider(): if (isConnected()) redisFree(connContext_); a second
\* redisFree of the same context is a double free: the allocator aborts or
\* the heap is corrupted silently
HiRedisProvider_dtor(use) ==
    /\ rphase = "live"
    /\ IF isConnected
       THEN /\ context' = [context EXCEPT !.state = "freed", !.frees = @ + 1]
            /\ rphase' = IF context.state = "freed" /\ use = "crash"
                         THEN "crashed" ELSE "destroyed"
       ELSE /\ rphase' = "destroyed"
            /\ UNCHANGED context
    /\ rcall' = [NoRCall EXCEPT !.n = rcall.n, !.name = "dtor",
            !.returned = (rphase' = "destroyed")]
    /\ UNCHANGED <<connContext_, wire>>
    /\ UNCHANGED <<evars, qvars, lvars, counter, jvars, svars>>

\* redisCommand(connContext_, ...) as seen by the caller: the command goes
\* out on the context, whatever its state
Sent(verb) == Append(wire, <<verb, context.state>>)

\* bool setValue(key, value): when connected, send SET, read replyObj->str
\* for the trace (a null replyObj is dereferenced), free the reply and set
\* status to true; otherwise log and return false
redis_setValue(key, value, reply, use) ==
    /\ rphase = "live"
    /\ rcall.n < MaxRedisCalls
    /\ IF isConnected
       THEN /\ wire' = Sent("SET")
            /\ IF (context.state = "freed" /\ use = "crash") \/ reply = "null"
               THEN /\ rphase' = "crashed"
                    /\ rcall' = [NoRCall EXCEPT !.n = rcall.n + 1,
                            !.name = "setValue", !.key = key, !.reply = reply]
               ELSE /\ rcall' = [NoRCall EXCEPT !.n = rcall.n + 1,
                            !.name = "setValue", !.key = key, !.reply = reply,
                            !.ret = TRUE, !.returned = TRUE]
                    /\ UNCHANGED rphase
       ELSE /\ rcall' = [NoRCall EXCEPT !.n = rcall.n + 1,
                    !.name = "setValue", !.key = key, !.returned = TRUE]
            /\ UNCHANGED <<wire, rphase>>
    /\ UNCHANGED <<connContext_, context>>
    /\ UNCHANGED <<evars, qvars, lvars, counter, jvars, svars>>

\* KeyValuePair getAsKeyValuePair(key, value)
getAsKeyValuePair(key, value) == <<key, value>>

\* std::string getAsValue(key, value)
getAsValue(key, value) == value

ProcessWith(name, key, value) ==
    IF name = "getKeyValue" THEN getAsKeyValuePair(key, value)
    ELSE getAsValue(key, value)

\* value.assign(replyObj->str ? replyObj->str : std::string())
ReplyStr(reply, value) == IF reply = "string" THEN value ELSE ""

\* position of the first subkey whose GET has no reply object, 0 if none
RECURSIVE FirstNull(_, _, _)
FirstNull(elements, replies, i) ==
    IF i > Len(elements) THEN 0
    ELSE IF replies[elements[i]] = "null" THEN i
    ELSE FirstNull(elements, replies, i + 1)

\* the values collected from the subkeys: getValue(subkey, value) is true
\* when the value is not empty
RECURSIVE Collect(_, _, _, _, _)
Collect(name, elements, replies, value, i) ==
    IF i > Len(elements) THEN <<>>
    ELSE IF ReplyStr(replies[elements[i]], value) # ""
    THEN <<ProcessWith(name, elements[i], value)>>
            \o Collect(name, elements, replies, value, i + 1)
    ELSE Collect(name, elements, replies, value, i + 1)

\* bool getAndProcessValue(key, values, callback), called as name:
\* values.clear(); when connected and the key is not empty, a key without a
\* trailing asterisk is read with one GET, a key with one is expanded with
\* KEYS and every element is read with GET; a reply object that is null is
\* dereferenced; return !values.empty()
getAndProcessValue(name, key, value, reply, list, replies, use) ==
    /\ rphase = "live"
    /\ rcall.n < MaxRedisCalls
    /\ IF isConnected /\ key # <<>>
       THEN IF context.state = "freed" /\ use = "crash"
            THEN /\ wire' = Sent(IF key[Len(key)] # "*" THEN "GET" ELSE "KEYS")
                 /\ rphase' = "crashed"
                 /\ rcall' = [NoRCall EXCEPT !.n = rcall.n + 1,
                        !.name = name, !.key = key]
            ELSE IF key[Len(key)] # "*"
            THEN /\ wire' = Sent("GET")
                 /\ IF reply = "null"
                    THEN /\ rphase' = "crashed"
                         /\ rcall' = [NoRCall EXCEPT !.n = rcall.n + 1,
                                !.name = name, !.key = key, !.reply = reply]
                    ELSE /\ rcall' = [NoRCall EXCEPT !.n = rcall.n + 1,
                                !.name = name, !.key = key, !.reply = reply,
                                !.values = IF ReplyStr(reply, value) # ""
                                    THEN <<ProcessWith(name, key, value)>>
                                    ELSE <<>>,
                                !.ret = (ReplyStr(reply, value) # ""),
                                !.returned = TRUE]
                         /\ UNCHANGED rphase
            ELSE IF list.null
            THEN /\ wire' = Sent("KEYS")
                 /\ rphase' = "crashed"
                 /\ rcall' = [NoRCall EXCEPT !.n = rcall.n + 1,
                        !.name = name, !.key = key, !.reply = "null"]
            ELSE LET stop1 == FirstNull(list.elements, replies, 1)
                     gets == IF stop1 = 0 THEN Len(list.elements) ELSE stop1
                     found == Collect(name, list.elements, replies, value, 1)
                 IN /\ wire' = Sent("KEYS") \o
                            [i \in 1..gets |-> <<"GET", context.state>>]
                    /\ IF stop1 # 0
                       THEN /\ rphase' = "crashed"
                            /\ rcall' = [NoRCall EXCEPT !.n = rcall.n + 1,
                                    !.name = name, !.key = key,
                                    !.reply = "null"]
                       ELSE /\ rcall' = [NoRCall EXCEPT !.n = rcall.n + 1,
                                    !.name = name, !.key = key,
                                    !.reply = "array", !.values = found,
                                    !.ret = (found # <<>>),
                                    !.returned = TRUE]
                            /\ UNCHANGED rphase
       ELSE /\ rcall' = [NoRCall EXCEPT !.n = rcall.n + 1, !.name = name,
                    !.key = key, !.returned = TRUE]
            /\ UNCHANGED <<wire, rphase>>
    /\ UNCHANGED <<connContext_, context>>
    /\ UNCHANGED <<evars, qvars, lvars, counter, jvars, svars>>

\* bool getKeyValue(key, values)
redis_getKeyValue(key, value, reply, list, replies, use) ==
    getAndProcessValue("getKeyValue", key, value, reply, list, replies, use)

\* bool getValue(key, values)
redis_getValue(key, value, reply, list, replies, use) ==
    getAndProcessValue("getValue", key, value, reply, list, replies, use)

NextRedis ==
    \/ \E outcome \in ConnectOutcomes : HiRedisProvider(outcome)
    \/ \E use \in FreedUse : HiRedisProvider_dtor(use)
    \/ \E key \in RedisKeys, value \in RedisValues, reply \in SetReplies,
            use \in FreedUse : redis_setValue(key, value, reply, use)
    \/ \E key \in RedisKeys, value \in RedisValues, reply \in GetReplies,
            list \in KeysReplies, replies \in [SubKeys -> GetReplies],
            use \in FreedUse :
                redis_getKeyValue(key, value, reply, list, replies, use)
    \/ \E key \in RedisKeys, value \in RedisValues, reply \in GetReplies,
            list \in KeysReplies, replies \in [SubKeys -> GetReplies],
            use \in FreedUse :
                redis_getValue(key, value, reply, list, replies, use)

SpecRedis == Init /\ [][NextRedis]_vars

\* ---- RapidJsonProvider ------------------------------------------------------

\* RapidJsonProvider(logger, jsonSerializedText):
\* initialized_ = !doc_.Parse<0>(text).HasParseError()
RapidJsonProvider(text) ==
    /\ jcall.n = 0 /\ jcall.name = "none"
    /\ doc_' = Parse(text).root
    /\ initialized_' = ~Parse(text).error
    /\ jcall' = [NoJCall EXCEPT !.name = "ctor", !.returned = TRUE]
    /\ UNCHANGED <<evars, qvars, lvars, counter, rvars, svars>>

\* while (std::getline(strStream, keyLevel, '/')) with the empty tokens
\* dropped: cur is the token being read
RECURSIVE Tokens(_, _, _)
Tokens(key, i, cur) ==
    IF i > Len(key) THEN (IF cur = <<>> THEN <<>> ELSE <<cur>>)
    ELSE IF key[i] = "/"
    THEN (IF cur = <<>> THEN <<>> ELSE <<cur>>) \o Tokens(key, i + 1, <<>>)
    ELSE Tokens(key, i + 1, Append(cur, key[i]))

\* keyLevels: the tokens of the key, or the key itself when there is none
KeyLevels(key) ==
    IF Tokens(key, 1, <<>>) = <<>> THEN <<key>> ELSE Tokens(key, 1, <<>>)

\* value.HasMember(name) on an object
HasMember(value, name) ==
    \E i \in 1..Len(value.members) : value.members[i][1] = name

\* value[name] on an object that has the member
Member(value, name) ==
    value.members[CHOOSE i \in 1..Len(value.members) :
        value.members[i][1] = name][2]

\* the loop over keyLevels[index..]: parsedKey grows by "/" and the level;
\* a member that is found replaces value and ends the loop when it is a
\* string; a member that is not found ends the loop; HasMember is called
\* on value whatever its type (misuse when it is not an object)
RECURSIVE Traverse(_, _, _, _)
Traverse(value, parsedKey, keyLevels, index) ==
    IF index > Len(keyLevels)
    THEN [misuse |-> FALSE, value |-> value, parsedKey |-> parsedKey]
    ELSE LET keyLevel == keyLevels[index]
             grown == parsedKey \o <<"/">> \o keyLevel
         IN IF value.type # "object"
            THEN [misuse |-> TRUE, value |-> value, parsedKey |-> grown]
            ELSE IF HasMember(value, keyLevel)
            THEN IF Member(value, keyLevel).type = "string"
                 THEN [misuse |-> FALSE, value |-> Member(value, keyLevel),
                       parsedKey |-> grown]
                 ELSE Traverse(Member(value, keyLevel), grown, keyLevels,
                               index + 1)
            ELSE [misuse |-> FALSE, value |-> value, parsedKey |-> grown]

\* the body of getValue on an initialized provider and a key that is not
\* empty, on the copy of doc_: the first level is looked up in the root
\* (misuse when the root is not an object); a nested object is traversed
\* when there are more levels; the value is taken when it is a string and
\* parsedKey equals the key
Lookup(doc, key) ==
    LET keyLevels == KeyLevels(key)
        first == keyLevels[1]
    IN IF doc.type # "object"
       THEN [misuse |-> TRUE, values |-> <<>>]
       ELSE IF ~HasMember(doc, first)
       THEN [misuse |-> FALSE, values |-> <<>>]
       ELSE LET end == IF Member(doc, first).type = "object"
                            /\ Len(keyLevels) > 1
                       THEN Traverse(Member(doc, first), first, keyLevels, 2)
                       ELSE [misuse |-> FALSE, value |-> Member(doc, first),
                             parsedKey |-> first]
            IN [misuse |-> end.misuse,
                values |-> IF ~end.misuse /\ end.value.type = "string"
                                /\ end.parsedKey = key
                           THEN <<end.value.str>> ELSE <<>>]

\* bool getValue(key, values): values.clear(); the lookup when initialized_
\* and the key is not empty; return !values.empty()
json_getValue(key, build) ==
    /\ jcall.name # "none" /\ jcall.returned
    /\ jcall.n < MaxJsonCalls
    /\ IF initialized_ /\ key # <<>>
       THEN IF Lookup(doc_, key).misuse /\ build = "abort"
            THEN jcall' = [NoJCall EXCEPT !.n = jcall.n + 1,
                    !.name = "getValue", !.key = key]
            ELSE jcall' = [NoJCall EXCEPT !.n = jcall.n + 1,
                    !.name = "getValue", !.key = key,
                    !.values = Lookup(doc_, key).values,
                    !.ret = (Lookup(doc_, key).values # <<>>),
                    !.returned = TRUE]
       ELSE jcall' = [NoJCall EXCEPT !.n = jcall.n + 1,
                !.name = "getValue", !.key = key, !.returned = TRUE]
    /\ UNCHANGED <<doc_, initialized_>>
    /\ UNCHANGED <<evars, qvars, lvars, counter, rvars, svars>>

\* bool getKeyValue(key, values) { return false; }
json_getKeyValue(key) ==
    /\ jcall.name # "none" /\ jcall.returned
    /\ jcall.n < MaxJsonCalls
    /\ jcall' = [NoJCall EXCEPT !.n = jcall.n + 1, !.name = "getKeyValue",
            !.key = key, !.returned = TRUE]
    /\ UNCHANGED <<doc_, initialized_>>
    /\ UNCHANGED <<evars, qvars, lvars, counter, rvars, svars>>

\* a setValue that reports success on a parsed document
json_setValueAccepts(key, value) ==
    /\ jcall.name # "none" /\ jcall.returned
    /\ jcall.n < MaxJsonCalls
    /\ jcall' = [NoJCall EXCEPT !.n = jcall.n + 1, !.name = "setValue",
            !.key = key, !.ret = initialized_, !.returned = TRUE]
    /\ UNCHANGED <<doc_, initialized_>>
    /\ UNCHANGED <<evars, qvars, lvars, counter, rvars, svars>>

\* bool setValue(key, value) { return false; }
json_setValue(key, value) ==
    /\ jcall.name # "none" /\ jcall.returned
    /\ jcall.n < MaxJsonCalls
    /\ jcall' = [NoJCall EXCEPT !.n = jcall.n + 1, !.name = "setValue",
            !.key = key, !.returned = TRUE]
    /\ UNCHANGED <<doc_, initialized_>>
    /\ UNCHANGED <<evars, qvars, lvars, counter, rvars, svars>>

NextJson ==
    \/ \E text \in JsonTexts : RapidJsonProvider(text)
    \/ \E key \in JsonKeys, build \in Misuse : json_getValue(key, build)
    \/ \E key \in JsonKeys : json_getKeyValue(key)
    \/ \E key \in JsonKeys, value \in RedisValues : json_setValue(key, value)

SpecJson == Init /\ [][NextJson]_vars

\* ---- Log4CppLoggerProvider::start() called by several threads ----------------

\* thread t calls start(), for the first time or again
lstart_call(t) ==
    /\ lth[t].pc \in {"idle", "returned"}
    /\ lth' = [lth EXCEPT ![t] = [NoStart EXCEPT !.pc = "check"]]
    /\ UNCHANGED <<lock_, nconfig>>
    /\ UNCHANGED <<evars, qvars, lvars, counter, rvars, jvars>>

\* if (!started_): read outside the guard
lstart_check(t) ==
    /\ lth[t].pc = "check"
    /\ lth' = [lth EXCEPT ![t].pc = IF ~started_ THEN "lock" ELSE "return"]
    /\ UNCHANGED <<lock_, nconfig>>
    /\ UNCHANGED <<evars, qvars, lvars, counter, rvars, jvars>>

\* std::lock_guard<std::mutex> guard(lock_)
lstart_lock(t) ==
    /\ lth[t].pc = "lock"
    /\ lock_ = 0
    /\ lock_' = t
    /\ lth' = [lth EXCEPT ![t].pc = "configure"]
    /\ UNCHANGED nconfig
    /\ UNCHANGED <<evars, qvars, lvars, counter, rvars, jvars>>

\* PropertyConfigurator::configure(propertiesFile_): it configures the root
\* category, or throws ConfigureFailure (ok = FALSE): return false, the
\* guard being released on the way out
lstart_configure(t, ok, pr) ==
    /\ lth[t].pc = "configure"
    /\ IF ok
       THEN /\ nconfig' = nconfig + 1
            /\ rootPriority' = pr
            /\ lth' = [lth EXCEPT ![t].pc = "store"]
            /\ UNCHANGED lock_
       ELSE /\ lock_' = 0
            /\ lth' = [lth EXCEPT ![t].pc = "returned", ![t].failed = TRUE]
            /\ UNCHANGED <<nconfig, rootPriority>>
    /\ UNCHANGED <<started_, sink, phase, lcall>>
    /\ UNCHANGED <<evars, qvars, counter, rvars, jvars>>

\* started_ = true; the guard is released at the end of the block
lstart_store(t) ==
    /\ lth[t].pc = "store"
    /\ started_' = TRUE
    /\ lock_' = 0
    /\ lth' = [lth EXCEPT ![t].pc = "return"]
    /\ UNCHANGED <<rootPriority, sink, phase, lcall, nconfig>>
    /\ UNCHANGED <<evars, qvars, counter, rvars, jvars>>

\* return started_
lstart_return(t) ==
    /\ lth[t].pc = "return"
    /\ lth' = [lth EXCEPT ![t].pc = "returned", ![t].ret = started_]
    /\ UNCHANGED <<lock_, nconfig>>
    /\ UNCHANGED <<evars, qvars, lvars, counter, rvars, jvars>>

NextLogStart ==
    \/ \E t \in Starters : lstart_call(t)
    \/ \E t \in Starters : lstart_check(t)
    \/ \E t \in Starters : lstart_lock(t)
    \/ \E t \in Starters, ok \in BOOLEAN, pr \in ConfigPriorities :
            lstart_configure(t, ok, pr)
    \/ \E t \in Starters : lstart_store(t)
    \/ \E t \in Starters : lstart_return(t)

SpecLogStart == Init /\ [][NextLogStart]_vars

\* ---- a timer whose callback feeds a queue ----------------------------------

\* the callback of the composition begins: it increments the integer of its
\* context and calls push with the new value
tick_begin(w) ==
    /\ worker[w].pc = "call"
    /\ counter < MaxTicks
    /\ worker' = [worker EXCEPT ![w].pc = "in_cb",
            ![w].ncalls = Sat(@),
            ![w].afterClear = IF execute_ THEN @ ELSE @ + 1]
    /\ counter' = counter + 1
    /\ th' = [th EXCEPT ![WorkerTid(w)].pc = "push_lock",
            ![WorkerTid(w)].element = counter + 1]
    /\ UNCHANGED <<execute_, thread_, cpc, op, last, args, spawned>>
    /\ UNCHANGED <<queue_, mutex_, pushed, popped>>
    /\ UNCHANGED <<lvars, pvars>>

\* the steps of push on the worker's thread
tick_push(w) ==
    /\ worker[w].pc = "in_cb"
    /\ \/ push_lock(WorkerTid(w))
       \/ push_push(WorkerTid(w))
       \/ push_return(WorkerTid(w))

\* the callback returns once its push has returned
tick_return(w) ==
    /\ th[WorkerTid(w)].pc = "idle"
    /\ callback_return(w)

NextTimerQueue ==
    \/ \E t \in TickTimeouts : start(t, "cbA", "ctx1")
    \/ start_store
    \/ start_spawn
    \/ stop
    \/ stop_store
    \/ stop_join
    \/ \E w \in Workers : loop_check(w)
    \/ \E w \in Workers : tick_begin(w)
    \/ \E w \in Workers : tick_push(w)
    \/ \E w \in Workers : tick_return(w)
    \/ \E w \in Workers : slice_check(w)
    \/ \E w \in Workers : sleep_for(w)
    \/ \E t \in Consumers : pop(t)
    \/ \E t \in Consumers : pop_lock(t)
    \/ \E t \in Consumers : pop_empty(t)
    \/ \E t \in Consumers : pop_front(t)
    \/ \E t \in Consumers : pop_pop(t)
    \/ \E t \in Consumers : pop_unlock(t)
    \/ \E t \in Consumers : pop_return(t)

SpecTimerQueue == Init /\ [][NextTimerQueue]_vars

Next ==
    \/ \E t \in Timeouts, cb \in Callbacks, p \in Params : start(t, cb, p)
    \/ \E cb \in Callbacks, p \in Params : start0(cb, p)
    \/ start_store
    \/ start_spawn
    \/ stop
    \/ stop_store
    \/ stop_join
    \/ dtor
    \/ dtor_members
    \/ \E w \in Workers : loop_check(w)
    \/ \E w \in Workers : callback_begin(w)
    \/ \E w \in Workers : callback_return(w)
    \/ \E w \in Workers : slice_check(w)
    \/ \E w \in Workers : sleep_for(w)

Spec == Init /\ [][Next]_vars

\* the scheduler runs every thread that can take a step: the caller inside
\* a call, and each worker (a callback invocation that began returns)
FairSpec ==
    /\ Spec
    /\ WF_vars(stop_store)
    /\ WF_vars(stop_join)
    /\ WF_vars(start_store)
    /\ WF_vars(start_spawn)
    /\ WF_vars(dtor_members)
    /\ \A w \in Workers : WF_vars(WorkerStep(w))

TypeOK ==
    /\ execute_ \in BOOLEAN
    /\ thread_ \in 0..MaxWorkers
    /\ spawned \in 0..MaxWorkers
    /\ cpc \in {"idle", "start_store", "start_spawn", "stop_store",
                "stop_join", "dtor_members", "destroyed", "terminated"}
    /\ op \in {"none", "start", "restart", "stop", "dtor"}
    /\ last \in {"ctor", "start", "restart", "stop"}

\* ---- FifoMultiThreaded: properties ---------------------------------------

IsPrefix(s, q) == Len(s) <= Len(q) /\ SubSeq(q, 1, Len(s)) = s

\* C1: at every moment the elements popped, in the order of the pops, are a
\* prefix of the elements pushed, in the order of the pushes, and the rest
\* of the pushed elements is the content of the queue: nothing is popped
\* twice, skipped or reordered.
FifoLaw ==
    /\ IsPrefix(popped, pushed)
    /\ popped \o queue_ = pushed

\* two different elements were popped while a third waits in the queue,
\* the second by a thread that still holds the mutex inside pop while
\* another thread waits for it
FifoWitness ==
    /\ Len(popped) = 2 /\ popped[1] # popped[2]
    /\ Len(queue_) = 1
    /\ \E t, u \in Threads :
            /\ th[t].pc = "pop_lock"
            /\ th[u].pc = "pop_unlock"
            /\ mutex_.owner = u

\* the threads between the acquisition and the release of the guard
InCritical ==
    {t \in Threads : th[t].pc \in {"push_push", "push_return", "pop_empty",
        "pop_front", "pop_pop", "pop_unlock", "empty_read", "empty_return",
        "size_read", "size_return"}}

\* C12: a pop that found the queue empty leaves the caller's variable as it
\* was and returns false, and the queue is empty for as long as that pop
\* holds the guard: the test and the (absent) removal are one atomic step.
EmptyPopFails ==
    \A t \in Threads :
        /\ (th[t].pc = "pop_unlock" /\ ~th[t].status)
                => (queue_ = <<>> /\ th[t].out = "old")
        /\ (th[t].pc = "pop_return" /\ ~th[t].status)
                => (th[t].ret = FALSE /\ th[t].out = "old")
        /\ (th[t].pc = "pop_return" /\ th[t].status)
                => (th[t].ret = TRUE /\ th[t].out \in Items)

\* a pop has failed on the empty queue while another thread waits to push
EmptyPopWitness ==
    \E t, u \in Threads :
        /\ th[t].pc = "pop_unlock" /\ ~th[t].status
        /\ th[u].pc = "push_lock"
        /\ Len(popped) >= 1

\* C13: the value size() returns is the number of pushes minus the number
\* of successful pops, empty() returns true exactly when that number is 0,
\* and the length of the queue is that number in every state.
SizeConsistency ==
    /\ Len(queue_) = Len(pushed) - Len(popped)
    /\ \A t \in Threads :
        /\ th[t].pc = "size_return" => th[t].ret = Len(pushed) - Len(popped)
        /\ th[t].pc = "empty_return" => th[t].ret = (Len(pushed) = Len(popped))

\* size() is about to return 1 after two pushes and one pop
SizeWitness ==
    \E t \in Threads :
        /\ th[t].pc = "size_return" /\ th[t].ret = 1
        /\ Len(pushed) = 2 /\ Len(popped) = 1

\* C14: the step of push that changes the queue appends the element as the
\* new last one, leaving the elements before it as they were, and push
\* returns true.
PushAppends ==
    [][\A t \in Threads :
        (th[t].pc = "push_push" /\ th'[t].pc = "push_return")
            => /\ Len(queue_') = Len(queue_) + 1
               /\ SubSeq(queue_', 1, Len(queue_)) = queue_
               /\ queue_'[Len(queue_')] = th[t].element
               /\ th'[t].ret = TRUE]_vars

\* a push has appended to a queue that held other elements
PushWitness ==
    \E t \in Threads :
        /\ th[t].pc = "push_return" /\ th[t].ret = TRUE
        /\ Len(queue_) >= 2
        /\ queue_[1] # queue_[Len(queue_)]

\* C15: at most one thread is between the acquisition and the release of
\* the guard of any operation, and that thread owns mutex_.
MutualExclusion ==
    /\ Cardinality(InCritical) <= 1
    /\ \A t \in InCritical : mutex_.owner = t /\ mutex_.count = 1
    /\ InCritical = {} => mutex_.owner = 0

\* one thread is inside size() while another waits to pop
ExclusionWitness ==
    \E t, u \in Threads :
        /\ th[t].pc = "size_read"
        /\ th[u].pc = "pop_lock"
        /\ queue_ # <<>>

\* C16: under fair scheduling every call of push, pop, empty and size
\* returns, whatever the other threads do; a pop does not wait for a push.
CallsReturn ==
    \A t \in Threads : (th[t].pc # "idle") ~> (th[t].pc = "idle")

\* every thread is inside pop on the empty queue: one holds the guard, the
\* others wait for it, and nothing was ever pushed
AllPopEmptyWitness ==
    /\ pushed = <<>>
    /\ \E t \in Threads :
            /\ th[t].pc = "pop_empty"
            /\ \A u \in Threads \ {t} : th[u].pc = "pop_lock"

\* ---- timer feeding a queue: properties --------------------------------------

Contiguous(q) == \A i \in 1..Len(q) : q[i] = q[1] + (i - 1)

\* a consumer's pop has found the queue empty after stop() returned
DrainedAfterStop ==
    /\ op = "none" /\ last = "stop"
    /\ \E t \in Consumers : th[t].pc = "pop_unlock" /\ ~th[t].status

\* C17: the values popped, by all consumers in the order of the pops, are
\* strictly increasing and contiguous, and once a pop fails after stop()
\* returned, they are all the values the callback produced: 1..counter,
\* each once.
EndToEndOrder ==
    /\ Contiguous(popped)
    /\ DrainedAfterStop
            => /\ Len(popped) = counter
               /\ \A i \in 1..Len(popped) : popped[i] = i

\* the queue was drained after stop() of a timer that ticked three times
DrainedWitness ==
    /\ DrainedAfterStop
    /\ counter >= 3
    /\ Len(popped) = counter

\* ---- ILogProvider, Log4CppLoggerProvider: properties ------------------------

\* the level each tag stands for; every other string stands for LL_ALL
TagLevels ==
    {<<traceTag, LL_TRACE>>, <<debugTag, LL_DEBUG>>, <<infoTag, LL_INFO>>,
     <<warnTag, LL_WARN>>, <<errorTag, LL_ERROR>>, <<fatalTag, LL_FATAL>>,
     <<offTag, LL_OFF>>}

ExpectedLevel(str) ==
    IF \E p \in TagLevels : p[1] = str
    THEN (CHOOSE p \in TagLevels : p[1] = str)[2]
    ELSE LL_ALL

IsNarrowText(w) == \A i \in 1..Len(w) : w[i] < 128

EmitNames == {"log", "trace", "debug", "info", "warn", "error", "fatal"}

\* C18: setLevel(string) hands setLevel(int) the level of the exact tag and
\* LL_ALL for every other string, and returns what setLevel(int) returns
\* (true exactly on a started provider); the wide overload does the same
\* for the same characters.
SetLevelTagMapping ==
    /\ lcall.name = "setLevelString"
            => /\ lcall.level = ExpectedLevel(lcall.arg)
               /\ lcall.ret = (lcall.phase0 = "started")
    /\ (lcall.name = "setLevelWide" /\ IsNarrowText(lcall.arg))
            => /\ lcall.level = ExpectedLevel(lcall.arg)
               /\ lcall.ret = (lcall.phase0 = "started")

\* "TRACE" was handed to the narrow overload and mapped to LL_ALL
UpperCaseTagWitness ==
    /\ lcall.name = "setLevelString"
    /\ lcall.arg = <<84, 82, 65, 67, 69>>
    /\ lcall.level = LL_ALL

\* C19: a setLevel(level) that returns true has set the root priority to
\* the priority mapped from level.
SetLevelOverridesRoot ==
    (lcall.name \in {"setLevel", "setLevelString", "setLevelWide"} /\ lcall.ret)
        => rootPriority = PriorityOf(lcall.level)

\* C20: before a successful start() and after shutdown() the emit methods
\* and setLevel return false and hand nothing to log4cpp; on a started
\* provider each emit method returns true and hands its message over; a
\* failed start() leaves the provider not started; start() on a started
\* provider returns true without configuring.
StartEmitStateMachine ==
    /\ started_ <=> (phase = "started")
    /\ (lcall.name \in EmitNames \cup {"setLevel"} /\ lcall.phase0 # "started")
            => (~lcall.ret /\ lcall.passed = "none")
    /\ (lcall.name \in EmitNames /\ lcall.phase0 = "started")
            => (lcall.ret /\ lcall.passed = "emit")
    /\ (lcall.name = "start" /\ lcall.phase0 = "started")
            => (lcall.ret /\ lcall.passed = "none")
    /\ (lcall.name = "start" /\ lcall.phase0 # "started")
            => (lcall.passed = "configure" /\ (started_ <=> lcall.ret))

\* an emit method is refused after shutdown() on a provider that had
\* emitted before
RefusedAfterShutdownWitness ==
    /\ lcall.name = "warn" /\ lcall.phase0 = "shut" /\ ~lcall.ret
    /\ Len(sink) >= 1

\* ---- CallbackWithTimeout: properties -------------------------------------

InCallback == {w \in Workers : worker[w].pc = "in_cb"}

\* C2: when stop() has returned (called by the user, by start() or by the
\* destructor) the worker has exited: no worker is alive, so no callback
\* invocation is in progress or can begin, and the handle is not joinable.
StopReturnsAfterWorkerExit ==
    /\ (op = "none" /\ last = "stop") => (AliveWorkers = {} /\ ~joinable)
    /\ (op = "restart" /\ cpc = "start_store") => (AliveWorkers = {} /\ ~joinable)
    /\ (op = "dtor" /\ cpc = "dtor_members") => (AliveWorkers = {} /\ ~joinable)

\* stop() has returned on an executor whose worker had been spawned
StopReturnedWitness ==
    /\ op = "none" /\ last = "stop"
    /\ spawned >= 1 /\ worker[spawned].pc = "done"

\* C3: at every instant at most one worker thread of the instance is alive.
AtMostOneWorker == Cardinality(AliveWorkers) <= 1

\* start() was called while running and waits in its join for the worker
RestartJoinWitness ==
    /\ op = "restart" /\ cpc = "stop_join"
    /\ joinable /\ Alive(thread_)

\* C4: callback invocations of one instance never overlap.
InvocationsSequential == Cardinality(InCallback) <= 1

\* the worker of a restart is inside its second invocation
SecondWorkerInvokesWitness ==
    /\ last = "restart" /\ joinable
    /\ worker[thread_].pc = "in_cb"
    /\ worker[thread_].ncalls >= 2

\* C5: after the flag was cleared a worker completes at most one sleep slice
\* before it exits, and the slice and a callback begun after the clearing
\* exclude each other: stop() waits for one slice or for one invocation.
BoundedCancellation == \A w \in Workers : worker[w].afterClear <= 1

\* a worker with two slices per interval leaves after the first, the flag
\* having been cleared while it slept
CancelledInSliceWitness ==
    \E w \in Workers :
        /\ worker[w].pc = "loop_check" /\ ~execute_
        /\ worker[w].maxSteps = 2
        /\ worker[w].slept = timeSliceMilliseconds
        /\ worker[w].afterClear = 1

\* C6: under fair scheduling every stop() (called by the user, by start()
\* or by the destructor) leaves its store and its join: it returns.
StopTerminates ==
    (cpc \in {"stop_store", "stop_join"}) ~> (cpc \notin {"stop_store", "stop_join"})

\* stop() waits in join while a callback invocation is in flight
JoinWaitsWitness ==
    /\ cpc = "stop_join" /\ joinable
    /\ worker[thread_].pc = "in_cb"

\* C7: start() on a running executor joins the previous worker before it
\* sets the flag and spawns; when it has returned, the one alive worker is
\* the new one, with the new arguments; only the worker of the handle is
\* ever inside the callback.
RestartIsStopThenStart ==
    /\ (op = "restart" /\ cpc \in {"start_store", "start_spawn"})
            => (AliveWorkers = {} /\ ~joinable)
    /\ (op = "none" /\ last = "restart")
            => /\ joinable
               /\ AliveWorkers = {thread_}
               /\ worker[thread_].timeoutMilliseconds = args.timeoutMilliseconds
               /\ worker[thread_].callback = args.callback
               /\ worker[thread_].param = args.param
    /\ \A w \in InCallback : w = thread_

\* a restart has returned and its worker has invoked the callback
RestartedWitness ==
    /\ op = "none" /\ last = "restart"
    /\ joinable /\ worker[thread_].ncalls >= 1
    /\ \E w \in Workers : w # thread_ /\ worker[w].pc = "done"

\* C8: isRunning() is false after construction and after stop() returned,
\* and true from the return of start() to the next call of stop().
IsRunningFollowsLifecycle ==
    /\ (op = "none" /\ last \in {"ctor", "stop"}) => ~isRunning
    /\ (op = "none" /\ last \in {"start", "restart"}) => isRunning

\* start() has returned and the worker has been through the loop twice
RunningWitness ==
    /\ op = "none" /\ last = "start" /\ isRunning
    /\ worker[thread_].pc = "loop_check"
    /\ worker[thread_].ncalls >= 2

\* C9: a worker whose flag stayed set begins its next invocation only after
\* it has slept at least timeoutMilliseconds since the previous one.
SleepReachesInterval ==
    \A w \in Workers :
        (/\ worker[w].pc = "call" /\ execute_
         /\ worker[w].ncalls >= 1
         /\ worker[w].timeoutMilliseconds >= 0)
            => worker[w].slept >= worker[w].timeoutMilliseconds

\* C10: a worker started with timeoutMilliseconds = 0 never sleeps.
ZeroIntervalNoSleep ==
    \A w \in Workers :
        (Alive(w) /\ worker[w].timeoutMilliseconds = 0)
            => (worker[w].pc # "sleep" /\ worker[w].slept = 0)

\* C11: the destructor of a running executor stops it: the members are
\* released with no worker alive and the handle not joinable, so that
\* std::terminate is never reached.
DestructorStops ==
    /\ cpc \in {"dtor_members", "destroyed"} => (AliveWorkers = {} /\ ~joinable)
    /\ cpc = "destroyed" => ~execute_
    /\ cpc # "terminated"

\* the executor was destroyed while it was running
DestroyedRunningWitness ==
    /\ cpc = "destroyed"
    /\ last \in {"start", "restart"}
    /\ spawned >= 1 /\ worker[spawned].pc = "done"

\* a worker with a zero interval is inside its second invocation
BackToBackWitness ==
    \E w \in Workers :
        /\ worker[w].timeoutMilliseconds = 0
        /\ worker[w].pc = "in_cb"
        /\ worker[w].ncalls >= 2
        /\ execute_

\* C25: every worker invokes the callback at least once before it exits,
\* even when stop() is called right after start() returned.
EveryWorkerInvokes ==
    [][\A w \in Workers :
        (worker[w].pc = "loop_check" /\ worker'[w].pc = "done")
            => worker[w].ncalls >= 1]_vars

\* C26: the worker never clears the running flag (only the store of stop()
\* does), and under fair scheduling a worker that has returned from an
\* invocation is inside the next one later on, unless the flag is cleared.
NeverStopsByItself ==
    /\ [][(execute_ /\ ~execute_') => cpc = "stop_store"]_vars
    /\ \A w \in Workers :
        (worker[w].pc = "slice_check") ~> (worker[w].pc = "in_cb" \/ ~execute_)

\* a worker with slices to sleep is inside a further invocation, the flag
\* still set and no call of the user in progress
LoopGoesOnWitness ==
    \E w \in Workers :
        /\ cpc = "idle" /\ execute_
        /\ worker[w].pc = "in_cb"
        /\ worker[w].maxSteps = 2
        /\ worker[w].ncalls >= 2

\* C27: while no start(), stop() or destructor is in progress the flag is
\* set exactly when the handle is joinable; start() never assigns to a
\* joinable handle and the destructor never destroys one (std::terminate
\* is not reached).
FlagHandleConsistent ==
    /\ cpc = "idle" => (execute_ <=> joinable)
    /\ cpc # "terminated"

\* a second start() has assigned its thread to the handle the first one
\* had used, and returned
HandleReusedWitness ==
    /\ cpc = "idle" /\ execute_ /\ joinable
    /\ spawned >= 2 /\ thread_ = spawned

\* C28: an invocation that begins with the flag cleared is the first thing
\* that worker does after the clearing, begins while stop() waits in its
\* join for that worker, and is followed by no further invocation and no
\* sleep of that worker.
AtMostOneLateInvocation ==
    /\ [][\A w \in Workers :
            (worker[w].pc = "call" /\ worker'[w].pc = "in_cb" /\ ~execute_)
                => (worker[w].afterClear = 0 /\ cpc = "stop_join"
                        /\ thread_ = w)]_vars
    /\ [](\A w \in Workers :
            worker[w].afterClear >= 1 => worker[w].pc \notin {"call", "sleep"})

\* a worker has passed its loop test, the flag was cleared, and it is in
\* the invocation it began afterwards
LateInvocationWitness ==
    \E w \in Workers :
        /\ ~execute_ /\ cpc = "stop_join"
        /\ worker[w].pc = "in_cb"
        /\ worker[w].afterClear = 1

\* C29: stop() on an executor that was never started or is already stopped
\* changes nothing: flag clear, handle not joinable, no worker touched, and
\* its join has nothing to wait for; the state after it is the state before.
StopIdempotent ==
    /\ [][(op = "stop" /\ last \in {"ctor", "stop"}) =>
            /\ ~execute_ /\ ~execute_'
            /\ ~joinable /\ thread_' = thread_
            /\ worker' = worker /\ spawned' = spawned
            /\ cpc' # "terminated"]_vars
    /\ []((op = "stop" /\ last \in {"ctor", "stop"} /\ cpc = "stop_join")
            => AliveWorkers = {})

\* a second stop() in a row, on an executor that had run, is past its store
SecondStopWitness ==
    /\ op = "stop" /\ last = "stop" /\ cpc = "stop_join"
    /\ spawned >= 1

\* ---- HiRedisProvider: properties -------------------------------------------

\* the connection attempt of the constructor failed
ConnectFailed ==
    /\ rphase # "unconstructed"
    /\ context.state = "none" \/ context.err

\* C21: when the connection attempt in the constructor failed, isConnected()
\* is false from then on, setValue returns false, getValue and getKeyValue
\* return false with an empty list, no command is sent on the context, and
\* the context is freed at most once.
FailedConnectionStaysClosed ==
    ConnectFailed =>
        /\ ~isConnected
        /\ rcall.name \in {"setValue", "getValue", "getKeyValue"} =>
                rcall.returned /\ ~rcall.ret /\ rcall.values = <<>>
        /\ wire = <<>>
        /\ context.frees <= 1

\* C22: a setValue that returned gave true only when the reply to SET
\* reported success, and false when the provider was not connected or the
\* command gave an error reply or no reply.
SetValueReportsReply ==
    (rcall.name = "setValue" /\ rcall.returned) =>
        (rcall.ret <=> rcall.reply = "status")

\* ---- RapidJsonProvider: properties -----------------------------------------

\* the segments of a path-style key: the texts between the delimiters
RECURSIVE Segments(_, _, _)
Segments(key, i, cur) ==
    IF i > Len(key) THEN <<cur>>
    ELSE IF key[i] = "/" THEN <<cur>> \o Segments(key, i + 1, <<>>)
    ELSE Segments(key, i + 1, Append(cur, key[i]))

\* the value the segments lead to from value through nested objects, null
\* when a segment is missing or the value it is looked up in is no object
RECURSIVE Resolve(_, _, _)
Resolve(value, segments, i) ==
    IF i > Len(segments) THEN value
    ELSE IF value.type = "object" /\ HasMember(value, segments[i])
    THEN Resolve(Member(value, segments[i]), segments, i + 1)
    ELSE NullValue

\* the string getValue has to find for the key, <<>> when there is none
Found(key) ==
    IF initialized_ /\ key # <<>>
            /\ Resolve(doc_, Segments(key, 1, <<>>), 1).type = "string"
    THEN <<Resolve(doc_, Segments(key, 1, <<>>), 1).str>>
    ELSE <<>>

\* C23: getValue returns true exactly when the document parsed and the
\* segments of the key lead from the root through nested objects to a
\* string, and values is then that one string; in every other case it
\* returns false with values empty; the call leaves the document as it was.
GetValueFollowsPath ==
    /\ [](jcall.name = "getValue" =>
            /\ jcall.returned
            /\ jcall.values = Found(jcall.key)
            /\ jcall.ret <=> Found(jcall.key) # <<>>)
    /\ [][jcall'.name = "getValue" =>
            doc_' = doc_ /\ initialized_' = initialized_]_vars

\* C24: every setValue and every getKeyValue returns false, on a parsed
\* document and on one that failed to parse, and leaves the document and
\* the parse flag as they were.
UnsupportedCallsFail ==
    [][(jcall'.n # jcall.n /\ jcall'.name \in {"setValue", "getKeyValue"}) =>
        /\ jcall'.returned /\ ~jcall'.ret
        /\ doc_' = doc_ /\ initialized_' = initialized_]_vars

\* a setValue made after another call on a document that parsed returned
\* false
UnsupportedOnParsedWitness ==
    /\ initialized_ /\ doc_.type = "object"
    /\ jcall.name = "setValue" /\ jcall.n >= 2 /\ ~jcall.ret

\* ---- Log4CppLoggerProvider::start(): properties -----------------------------

\* C30: when several threads call start() on a provider that is not
\* started, log4cpp is configured at most once, and every call whose own
\* configuration did not fail returns true.
StartConfiguresOnce ==
    /\ nconfig <= 1
    /\ \A t \in Starters :
        (lth[t].pc = "returned" /\ ~lth[t].failed) => lth[t].ret

====
